---- MODULE Spec2Model ----
(***************************************************************************)
(* Resumable streaming chat route (app/(chat)/api/chat/route.ts): the POST, *)
(* GET and DELETE handlers as interleaved request processes over the       *)
(* conversation, message and stream-handle tables and the durable stream   *)
(* buffers.  Every await of a handler that touches shared state is one     *)
(* atomic step; code between two such awaits belongs to the later step.    *)
(***************************************************************************)
EXTENDS Integers, Sequences, FiniteSets, TLC

\* ------------------------------------------------------------------ bounds
NumSlots == 2        \* request handlers that can be in flight at once
MaxStarts == 3       \* requests issued in one behaviour
MaxChats == 1        \* conversation ids clients use
MaxMsgIds == 2       \* message ids clients use
MaxChunks == 1       \* output chunks of one generation
MaxResumeChunks == 3 \* output chunks of a generation that GETs resume
MaxHistory == 2      \* stored messages handed to the normalizer
MaxTick == 4         \* instants the clock can show
GuestQuota == 1      \* maxMessagesPerDay of a guest identity
RegularQuota == 2    \* maxMessagesPerDay of a regular identity

\* ------------------------------------------------------- program constants
StaleSeconds == 60   \* route.ts:350  isStreamExpired > 60
WindowHours == 24    \* route.ts:174  differenceInHours: 24
maxDuration == 60    \* route.ts:44
MsPerSecond == 1000
MsPerHour == 3600000

\* ------------------------------------------------------------------ domains
Slots == 1..NumSlots
ChatIds == 1..MaxChats
MsgIds == 1..MaxMsgIds
UUIDs == 1..MaxStarts
Users == {"u1", "u2"}
NoUser == "anon"
NoChat == [userId |-> NoUser, visibility |-> "none"]
NoBuf == [status |-> "absent", data |-> <<>>, lastUpdatedAt |-> 0]
NoId == 0
NoContext == 0   \* globalStreamContext is null; handle k is the k-th one constructed
ErrorChunk == 0  \* the terminal error part of a response stream
\* the instants of the clock, in milliseconds: 0, 60000, 60500, 61000, ...
Instant(i) == IF i = 1 THEN 0 ELSE 60000 + (i - 2) * 500
Backdate == 25 * MsPerHour   \* how far back a client may date its message
ErrorResponses == {"bad_request", "unauthorized", "rate_limit", "forbidden",
                   "not_found", "404"}

VARIABLES
  chats,                \* conversation table: id -> row (NoChat when absent)
  messages,             \* message table, in insertion order
  streams,              \* stream-handle table, in insertion order
  buffers,              \* durable buffer store: stream id -> buffer
  globalStreamContext,  \* process-wide handle of the buffer backend
  backendAvailable,     \* whether the backend is configured (REDIS_URL)
  uuid,                 \* identifiers handed out by generateUUID so far
  clock,                \* wall clock, milliseconds
  started,              \* requests issued so far
  cascaded,             \* history: stream handles removed with their conversation
  evicted,              \* history: stream ids whose stale buffer a GET deleted
  req,                  \* per handler: inputs, position, locals, response
  normalizer,           \* transformDBMessagesToSDKMessages: arguments, results
  crashed               \* history: POSTs cut off between save and registration

dbvars == <<chats, messages, streams, buffers>>
\* what no step of a request handler changes
envvars == <<backendAvailable, normalizer, crashed>>
procvars == <<globalStreamContext, envvars, uuid, clock, started>>
vars == <<chats, messages, streams, buffers, globalStreamContext,
          backendAvailable, uuid, clock, started, cascaded, evicted, req,
          normalizer, crashed>>

\* ------------------------------------------------------------ identities
userType(u) == IF u = "u1" THEN "guest" ELSE "regular"

maxMessagesPerDay(t) == IF t = "guest" THEN GuestQuota ELSE RegularQuota

\* ------------------------------------------------------------ persistence
getChatById(id) == chats[id]

MessageInWindow(m, id) ==
  /\ m.role = "user"
  /\ chats[m.chatId] # NoChat
  /\ chats[m.chatId].userId = id
  /\ m.createdAt >= clock - WindowHours * MsPerHour

getMessageCountByUserId(id) ==
  Cardinality({i \in 1..Len(messages) : MessageInWindow(messages[i], id)})

getStreamIdsByChatId(chatId) ==
  LET Of(s) == s.chatId = chatId
      rows == SelectSeq(streams, Of)
  IN [i \in 1..Len(rows) |-> rows[i].id]

\* the messages of a conversation in the order of their creation timestamps,
\* messages of one timestamp in the order of their insertion
RECURSIVE InsertByCreatedAt(_, _)
InsertByCreatedAt(row, sorted) ==
  IF sorted = <<>> THEN <<row>>
  ELSE IF Head(sorted).createdAt <= row.createdAt
  THEN <<Head(sorted)>> \o InsertByCreatedAt(row, Tail(sorted))
  ELSE <<row>> \o sorted

RECURSIVE SortByCreatedAt(_)
SortByCreatedAt(rows) ==
  IF rows = <<>> THEN <<>>
  ELSE InsertByCreatedAt(rows[Len(rows)],
                         SortByCreatedAt(SubSeq(rows, 1, Len(rows) - 1)))

getMessagesByChatId(id) ==
  LET Of(m) == m.chatId = id IN SortByCreatedAt(SelectSeq(messages, Of))

HasMessageId(id) == \E i \in 1..Len(messages) : messages[i].id = id

\* insert of a message row: the id is the primary key and the conversation
\* reference must resolve
CanSaveMessage(row) == ~HasMessageId(row.id) /\ chats[row.chatId] # NoChat

CanSaveChat(id) == chats[id] = NoChat

CanCreateStreamId(streamId, chatId) ==
  /\ chats[chatId] # NoChat
  /\ \A i \in 1..Len(streams) : streams[i].id # streamId

\* deleting a conversation cascades to its messages and stream handles
MessagesAfterDelete(id) ==
  LET Keep(m) == m.chatId # id IN SelectSeq(messages, Keep)

StreamsAfterDelete(id) ==
  LET Keep(s) == s.chatId # id IN SelectSeq(streams, Keep)

\* ------------------------------------------------------------ stream buffer
Last(s) == IF Len(s) = 0 THEN NoId ELSE s[Len(s)]

differenceInSeconds(later, earlier) ==
  LET d == later - earlier
  IN IF d >= 0 THEN d \div MsPerSecond ELSE -((-d) \div MsPerSecond)

\* variant: stale from StaleSeconds whole seconds on
isStreamExpiredInclusive(lastUpdatedAt) ==
  differenceInSeconds(clock, lastUpdatedAt) >= StaleSeconds

isStreamExpired(lastUpdatedAt) ==
  differenceInSeconds(clock, lastUpdatedAt) > StaleSeconds

\* ------------------------------------------------------------ normalizer
\* A string is the sequence of its pieces, the empty string the empty
\* sequence; NL is the line break.
NL == "\n"
ArchivedOpen == "[Archived Tool Interaction: "

Part(type, present, text, toolName, json) ==
  [type |-> type, present |-> present, text |-> text, toolName |-> toolName,
   json |-> json]

\* a text part; present: typeof part.text === 'string'
TextPart(text) == Part("text", TRUE, text, "", "")
TextPartNoString == Part("text", FALSE, <<>>, "", "")
\* tool parts; present: part.toolInvocation / part.toolResult is set
ToolInvocationPart == Part("tool-invocation", TRUE, <<>>, "getWeather", "{}")
ToolResultPart == Part("tool-result", TRUE, <<>>, "getWeather", "{}")
FilePart == Part("file", TRUE, <<>>, "", "")

\* the parts column: an array of parts, a string, or neither
ArrayOf(items) == [kind |-> "array", items |-> items, str |-> <<>>]
StringOf(str) == [kind |-> "string", items |-> <<>>, str |-> str]
NoParts == [kind |-> "null", items |-> <<>>, str |-> <<>>]

\* content += (content ? '\n' : '') + line
AppendLine(content, line) ==
  content \o (IF content # <<>> THEN <<NL>> ELSE <<>>) \o line

Contributes(part) ==
  part.present /\ part.type \in {"text", "tool-invocation", "tool-result"}

PartLine(part) ==
  IF part.type = "text" THEN part.text
  ELSE IF part.type = "tool-invocation"
  THEN <<"[Tool call executed: ", part.toolName, ", Args: ", part.json, "]">>
  ELSE <<"[Tool result for ", part.toolName, ": ", part.json, "]">>

RECURSIVE ConcatParts(_, _)
ConcatParts(content, items) ==
  IF items = <<>> THEN content
  ELSE ConcatParts(IF Contributes(Head(items))
                   THEN AppendLine(content, PartLine(Head(items)))
                   ELSE content,
                   Tail(items))

concatenatedTextContent(parts) ==
  IF parts.kind = "array" THEN ConcatParts(<<>>, parts.items)
  ELSE IF parts.kind = "string" THEN parts.str
  ELSE <<>>

RECURSIVE StringifyItems(_)
StringifyItems(items) ==
  IF items = <<>> THEN <<>>
  ELSE <<"{", Head(items).type>> \o Head(items).text
         \o <<Head(items).toolName, Head(items).json, "}">>
         \o StringifyItems(Tail(items))

JSONstringify(parts) ==
  IF parts.kind = "array" THEN <<"[">> \o StringifyItems(parts.items) \o <<"]">>
  ELSE <<"null">>

contentForDataRole(parts) ==
  IF parts.kind = "string" THEN parts.str ELSE JSONstringify(parts)

SDKMessage(id, role, content, createdAt) ==
  [id |-> id, role |-> role, content |-> content, createdAt |-> createdAt]

\* what the loop body pushes for one stored message: one entry or none
Pushed(dbMsg) ==
  IF dbMsg.role \in {"user", "system", "assistant"}
  THEN <<SDKMessage(dbMsg.id, dbMsg.role,
                    concatenatedTextContent(dbMsg.parts), dbMsg.createdAt)>>
  ELSE IF dbMsg.role = "data"
  THEN <<SDKMessage(dbMsg.id, "data", contentForDataRole(dbMsg.parts),
                    dbMsg.createdAt)>>
  ELSE IF dbMsg.role = "tool"
  THEN <<SDKMessage(dbMsg.id, "assistant",
                    <<ArchivedOpen>> \o concatenatedTextContent(dbMsg.parts)
                      \o <<"]">>,
                    dbMsg.createdAt)>>
  ELSE <<>>

RECURSIVE forEachDbMessage(_)
forEachDbMessage(dbMessages) ==
  IF dbMessages = <<>> THEN <<>>
  ELSE Pushed(Head(dbMessages)) \o forEachDbMessage(Tail(dbMessages))

\* parts.filter(type === 'text').map(text)
RECURSIVE TextsOf(_)
TextsOf(items) ==
  IF items = <<>> THEN <<>>
  ELSE (IF Head(items).type = "text" THEN <<Head(items).text>> ELSE <<>>)
         \o TextsOf(Tail(items))

\* texts.join('\n')
RECURSIVE Join(_)
Join(texts) ==
  IF texts = <<>> THEN <<>>
  ELSE IF Len(texts) = 1 THEN texts[1]
  ELSE texts[1] \o <<NL>> \o Join(Tail(texts))

\* variant: the new message is collapsed the way a stored message is
currentUserMessageContentCollapsed(incomingUserMessage) ==
  concatenatedTextContent(incomingUserMessage.parts)

currentUserMessageContent(incomingUserMessage) ==
  IF incomingUserMessage.parts.kind = "array"
  THEN Join(TextsOf(incomingUserMessage.parts.items))
  ELSE IF incomingUserMessage.contentIsString
  THEN incomingUserMessage.content
  ELSE <<>>

\* variant: the new entry is stamped with the time of the call
transformStampingNow(dbMessages, incomingUserMessage) ==
  forEachDbMessage(dbMessages)
    \o <<SDKMessage(incomingUserMessage.id, "user",
                    currentUserMessageContent(incomingUserMessage), clock)>>

transformDBMessagesToSDKMessages(dbMessages, incomingUserMessage) ==
  forEachDbMessage(dbMessages)
    \o <<SDKMessage(incomingUserMessage.id, "user",
                    currentUserMessageContent(incomingUserMessage),
                    incomingUserMessage.createdAt)>>

UIMessage(id, parts, createdAt) ==
  [id |-> id, parts |-> parts, content |-> <<>>, contentIsString |-> FALSE,
   createdAt |-> createdAt]

\* no call of the normalizer under observation
NormalizerIdle ==
  [dbMessages |-> <<>>, incomingUserMessage |-> UIMessage(<<"c", 1>>, NoParts, 0),
   sdkMessages |-> <<>>, sdkMessagesAgain |-> <<>>, calledAt |-> <<>>]

\* ------------------------------------------------------------ requests
Idle == [kind |-> "idle", pc |-> "idle", user |-> NoUser, chatId |-> NoId,
         msgId |-> NoId, visibility |-> "none", createdAt |-> 0, t0 |-> 0,
         chat |-> NoChat, streamId |-> NoId,
         streamIds |-> <<>>, wrapped |-> FALSE, found |-> NoBuf, at |-> 0,
         emitted |-> 0, resp |-> "none", body |-> <<>>,
         wrote |-> FALSE, saved |-> FALSE, registered |-> FALSE,
         parts |-> ArrayOf(<<>>), messagesForSDK |-> <<>>,
         response |-> <<>>, ended |-> "none", disconnected |-> FALSE,
         inStore |-> FALSE]

TablesChanged == dbvars' # dbvars

Rows(table) == {table[i] : i \in 1..Len(table)}

\* the handler in slot r moves to the record next.  Three history fields are
\* read off the tables: wrote, whether any of its steps so far changed a
\* table or a buffer; saved, whether its user message row was inserted;
\* registered, whether its stream handle was inserted
Step(r, next) ==
  req' = [req EXCEPT ![r] =
    [next EXCEPT
       !.wrote = req[r].wrote \/ TablesChanged,
       !.saved = next.kind = "POST" /\
                 (req[r].saved \/ \E m \in Rows(messages') \ Rows(messages) :
                      m.id = next.msgId /\ m.chatId = next.chatId /\ m.role = "user"),
       !.registered = next.kind = "POST" /\
                 (req[r].registered \/ \E h \in Rows(streams') \ Rows(streams) :
                      h.id = next.streamId /\ h.chatId = next.chatId)]]

Respond(r, code) == [req[r] EXCEPT !.pc = "done", !.resp = code]

InitRoute ==
  /\ chats = [c \in ChatIds |-> NoChat]
  /\ messages = <<>>
  /\ streams = <<>>
  /\ buffers = [s \in UUIDs |-> NoBuf]
  /\ globalStreamContext = NoContext
  /\ backendAvailable \in BOOLEAN
  /\ uuid = 0
  /\ clock = 0
  /\ started = 0
  /\ cascaded = {}
  /\ evicted = {}
  /\ req = [r \in Slots |-> Idle]
  /\ crashed = {}

Init == InitRoute /\ normalizer = NormalizerIdle

\* a finished handler's slot is released before anything else happens
NoneDone == \A s \in Slots : req[s].pc # "done"

\* a new request takes the lowest idle slot
Free(r) ==
  /\ NoneDone
  /\ req[r].pc = "idle"
  /\ \A s \in Slots : s < r => req[s].pc # "idle"
  /\ started < MaxStarts

\* the platform terminates a handler maxDuration seconds after it started
Alive(r) == clock - req[r].t0 <= maxDuration * MsPerSecond

At(r, pc) == NoneDone /\ req[r].pc = pc /\ Alive(r)

\* ------------------------------------------------------------------- POST
\* variant: the quota admits one message more
QuotaExceededStrict(u) ==
  getMessageCountByUserId(u) > maxMessagesPerDay(userType(u))

QuotaExceeded(u) ==
  getMessageCountByUserId(u) >= maxMessagesPerDay(userType(u))

PostBegin(r, valid, user, chatId, msgId, visibility, backdated) ==
  LET in == [Idle EXCEPT !.kind = "POST", !.user = user, !.chatId = chatId,
                         !.msgId = <<"c", msgId>>, !.visibility = visibility,
                         !.createdAt = IF backdated THEN clock - Backdate
                                       ELSE clock,
                         !.t0 = clock]
  IN IF ~valid THEN [in EXCEPT !.pc = "done", !.resp = "bad_request"]
     ELSE IF user = NoUser THEN [in EXCEPT !.pc = "done", !.resp = "unauthorized"]
     ELSE IF QuotaExceeded(user) THEN [in EXCEPT !.pc = "done", !.resp = "rate_limit"]
     ELSE [in EXCEPT !.pc = "postGetChat"]

PostStartOf(r, validity, users, backdating, msgIds, visibilities) ==
  /\ Free(r)
  /\ started' = started + 1
  /\ UNCHANGED <<dbvars, globalStreamContext, envvars, uuid, clock, cascaded, evicted>>
  /\ \E valid \in validity, user \in users, chatId \in ChatIds,
        msgId \in msgIds, visibility \in visibilities,
        backdated \in backdating :
       \* inputs of a rejected body are never read
       /\ (~valid \/ user = NoUser) => (chatId = 1 /\ msgId = 1
                      /\ visibility = "private" /\ ~backdated)
       /\ ~valid => user = NoUser
       /\ Step(r, PostBegin(r, valid, user, chatId, msgId, visibility, backdated))

PostStartIn(r, validity, users, backdating) ==
  PostStartOf(r, validity, users, backdating, MsgIds, {"private", "public"})

PostStart(r) == PostStartIn(r, BOOLEAN, Users \cup {NoUser}, {FALSE})

PostChatChecked(r) ==
  LET chat == getChatById(req[r].chatId)
      me == req[r]
  IN IF chat = NoChat THEN [me EXCEPT !.pc = "saveChat"]
     ELSE IF chat.userId # req[r].user
          THEN [me EXCEPT !.pc = "done", !.resp = "forbidden"]
          ELSE [me EXCEPT !.pc = "saveMessages"]

PostGetChat(r) ==
  /\ At(r, "postGetChat")
  /\ UNCHANGED <<dbvars, procvars, cascaded, evicted>>
  /\ Step(r, PostChatChecked(r))

PostSaveChat(r) ==
  /\ At(r, "saveChat")
  /\ UNCHANGED <<messages, streams, buffers, procvars, cascaded, evicted>>
  /\ IF CanSaveChat(req[r].chatId)
     THEN /\ chats' = [chats EXCEPT ![req[r].chatId] =
                         [userId |-> req[r].user, visibility |-> req[r].visibility]]
          /\ Step(r, [req[r] EXCEPT !.pc = "saveMessages"])
     ELSE /\ chats' = chats
          /\ Step(r, Respond(r, "error500"))

UserRow(r) == [id |-> req[r].msgId, chatId |-> req[r].chatId, role |-> "user",
               parts |-> req[r].parts, createdAt |-> req[r].createdAt]

\* variant: the user message is not saved before the handler moves on
PostSaveMessagesSkipped(r) ==
  /\ At(r, "saveMessages")
  /\ UNCHANGED <<dbvars, procvars, cascaded, evicted>>
  /\ Step(r, [req[r] EXCEPT !.pc = "createStreamId"])

\* variant: a failed insert is answered with a bad_request error response
PostSaveMessagesReporting(r) ==
  /\ At(r, "saveMessages")
  /\ UNCHANGED <<chats, streams, buffers, procvars, cascaded, evicted>>
  /\ IF CanSaveMessage(UserRow(r))
     THEN /\ messages' = Append(messages, UserRow(r))
          /\ Step(r, [req[r] EXCEPT !.pc = "createStreamId"])
     ELSE /\ messages' = messages
          /\ Step(r, Respond(r, "bad_request"))

\* the new message as the normalizer takes it
IncomingOf(r) == UIMessage(req[r].msgId, req[r].parts, req[r].createdAt)

\* getMessagesByChatId and the normalizer, then saveMessages
PostSaveMessagesWith(r, messagesForSDK) ==
  /\ At(r, "saveMessages")
  /\ UNCHANGED <<chats, streams, buffers, procvars, cascaded, evicted>>
  /\ IF CanSaveMessage(UserRow(r))
     THEN /\ messages' = Append(messages, UserRow(r))
          /\ Step(r, [req[r] EXCEPT !.pc = "createStreamId",
                                    !.messagesForSDK = messagesForSDK])
     ELSE /\ messages' = messages
          /\ Step(r, [Respond(r, "error500") EXCEPT
                         !.messagesForSDK = messagesForSDK])

\* variant: the history is read when the new message is already stored
PostGetMessagesAfterSave(r) ==
  /\ At(r, "saveMessages")
  /\ req[r].messagesForSDK = <<>>
  /\ UNCHANGED <<dbvars, procvars, cascaded, evicted>>
  /\ Step(r, [req[r] EXCEPT
                !.messagesForSDK = transformDBMessagesToSDKMessages(
                   InsertByCreatedAt(UserRow(r), getMessagesByChatId(req[r].chatId)),
                   IncomingOf(r)),
                !.inStore = HasMessageId(req[r].msgId)])

\* getMessagesByChatId and the normalizer, as a step of their own; inStore:
\* the id of the new message was found in the store at that time
PostGetMessages(r) ==
  /\ At(r, "saveMessages")
  /\ req[r].messagesForSDK = <<>>
  /\ UNCHANGED <<dbvars, procvars, cascaded, evicted>>
  /\ Step(r, [req[r] EXCEPT
                !.messagesForSDK = transformDBMessagesToSDKMessages(
                   getMessagesByChatId(req[r].chatId), IncomingOf(r)),
                !.inStore = HasMessageId(req[r].msgId)])

\* saveMessages, after the history was read
PostSaveAfterRead(r) ==
  /\ req[r].messagesForSDK # <<>>
  /\ PostSaveMessagesWith(r, req[r].messagesForSDK)

\* where no generation output is read, the history handed to the generation
\* is left out of the handler's record
PostSaveMessages(r) == PostSaveMessagesWith(r, <<>>)

\* variant: the stream id is generated but not registered before generation
PostCreateStreamIdLate(r) ==
  /\ At(r, "createStreamId")
  /\ uuid' = uuid + 1
  /\ UNCHANGED <<dbvars, globalStreamContext, envvars, clock, started,
                 cascaded, evicted>>
  /\ Step(r, [req[r] EXCEPT !.pc = "generate", !.streamId = uuid'])

\* variant: one stream id per conversation, registered if not yet there
PostCreateStreamIdPerChat(r) ==
  /\ At(r, "createStreamId")
  /\ uuid' = uuid + 1
  /\ UNCHANGED <<chats, messages, buffers, globalStreamContext,
                 envvars, clock, started, cascaded, evicted>>
  /\ streams' = IF CanCreateStreamId(req[r].chatId, req[r].chatId)
                THEN Append(streams, [id |-> req[r].chatId, chatId |-> req[r].chatId])
                ELSE streams
  /\ Step(r, [req[r] EXCEPT !.pc = "generate", !.streamId = req[r].chatId])

PostCreateStreamId(r) ==
  /\ At(r, "createStreamId")
  /\ uuid' = uuid + 1
  /\ UNCHANGED <<chats, messages, buffers, globalStreamContext,
                 envvars, clock, started, cascaded, evicted>>
  /\ IF CanCreateStreamId(uuid', req[r].chatId)
     THEN /\ streams' = Append(streams, [id |-> uuid', chatId |-> req[r].chatId])
          /\ Step(r, [req[r] EXCEPT !.pc = "generate", !.streamId = uuid'])
     ELSE /\ streams' = streams
          /\ Step(r, [Respond(r, "error500") EXCEPT !.streamId = uuid'])

\* variant: every call constructs a handle and stores it
getStreamContextUnguarded ==
  IF backendAvailable THEN globalStreamContext + 1 ELSE NoContext

\* lazily constructs the process-wide handle; construction throws when the
\* backend is not configured and the handle stays null.  The function has
\* no await: a call runs from the test of the handle to its return in one
\* step
getStreamContext ==
  IF globalStreamContext = NoContext
  THEN IF backendAvailable THEN NoContext + 1 ELSE NoContext
  ELSE globalStreamContext

LiveBuf(data) == [status |-> "live", data |-> data, lastUpdatedAt |-> clock]

\* variant: without a backend handle the request fails
PostResumableStreamRequired(r) ==
  /\ At(r, "generate")
  /\ globalStreamContext' = getStreamContext
  /\ UNCHANGED <<chats, messages, streams, envvars, uuid, clock,
                 started, cascaded, evicted>>
  /\ IF globalStreamContext' # NoContext
     THEN /\ buffers' = [buffers EXCEPT ![req[r].streamId] = LiveBuf(<<>>)]
          /\ Step(r, [req[r] EXCEPT !.pc = "gen", !.resp = "stream",
                                    !.wrapped = TRUE])
     ELSE /\ buffers' = buffers
          /\ Step(r, Respond(r, "error500"))

\* createDataStream issues the generation call; the stream is wrapped into a
\* resumable stream when the backend handle exists
PostResumableStream(r) ==
  /\ At(r, "generate")
  /\ globalStreamContext' = getStreamContext
  /\ UNCHANGED <<chats, messages, streams, envvars, uuid, clock,
                 started, cascaded, evicted>>
  /\ IF globalStreamContext' # NoContext
     THEN buffers' = [buffers EXCEPT ![req[r].streamId] = LiveBuf(<<>>)]
     ELSE buffers' = buffers
  /\ Step(r, [req[r] EXCEPT !.pc = "gen", !.resp = "stream",
                            !.wrapped = globalStreamContext' # NoContext])

\* variant: the newest chunk is put in front of the buffered ones
GenChunkPrepending(r, n) ==
  /\ At(r, "gen")
  /\ req[r].emitted < n
  /\ UNCHANGED <<chats, messages, streams, procvars, cascaded, evicted>>
  /\ LET sid == req[r].streamId
         chunk == req[r].emitted + 1
     IN IF req[r].wrapped /\ buffers[sid] # NoBuf
        THEN buffers' = [buffers EXCEPT ![sid] = LiveBuf(<<chunk>> \o buffers[sid].data)]
        ELSE buffers' = buffers
  /\ Step(r, [req[r] EXCEPT !.emitted = @ + 1])

\* one output chunk: forwarded to the caller and appended to the buffer
GenChunkUpTo(r, n) ==
  /\ At(r, "gen")
  /\ req[r].emitted < n
  /\ UNCHANGED <<chats, messages, streams, procvars, cascaded, evicted>>
  /\ LET sid == req[r].streamId
         chunk == req[r].emitted + 1
     IN IF ~req[r].wrapped THEN buffers' = buffers
        ELSE IF buffers[sid] # NoBuf
        THEN buffers' = [buffers EXCEPT ![sid] = LiveBuf(Append(buffers[sid].data, chunk))]
        \* the buffer was evicted under the writer: the backend either drops
        \* the append or starts the buffer again
        ELSE \/ buffers' = buffers
             \/ buffers' = [buffers EXCEPT ![sid] = LiveBuf(<<chunk>>)]
  /\ Step(r, [req[r] EXCEPT !.emitted = @ + 1])

GenChunk(r) == GenChunkUpTo(r, MaxChunks)

\* the text of the assistant message of a response
Reply == <<"Hi there">>

\* ---- the final response of a generation and the completion callback
\* an entry of response.messages; its content is a string or an array of
\* parts
ResponseMessage(id, role, content) == [id |-> id, role |-> role, content |-> content]

NoMessage == ResponseMessage(<<>>, "none", NoParts)

ToolCallPart == Part("tool-call", TRUE, <<>>, "getWeather", "{}")
ReasoningPart == Part("reasoning", TRUE, <<"thinking">>, "", "")

\* variant: the first assistant message of the response is the one saved
RECURSIVE firstAssistantMessage(_)
firstAssistantMessage(responseMessages) ==
  IF responseMessages = <<>> THEN NoMessage
  ELSE IF Head(responseMessages).role = "assistant" THEN Head(responseMessages)
  ELSE firstAssistantMessage(Tail(responseMessages))

\* response.messages.filter(m => m.role === 'assistant').pop()
RECURSIVE lastAssistantMessage(_)
lastAssistantMessage(responseMessages) ==
  IF responseMessages = <<>> THEN NoMessage
  ELSE IF responseMessages[Len(responseMessages)].role = "assistant"
  THEN responseMessages[Len(responseMessages)]
  ELSE lastAssistantMessage(SubSeq(responseMessages, 1, Len(responseMessages) - 1))

\* content.map(part => ...).filter(p => p !== null)
RECURSIVE MapContent(_)
MapContent(items) ==
  IF items = <<>> THEN <<>>
  ELSE (IF Head(items).type = "text" THEN <<TextPart(Head(items).text)>>
        ELSE IF Head(items).type = "tool-call"
        THEN <<Part("tool-invocation", TRUE, <<>>, Head(items).toolName,
                    Head(items).json)>>
        ELSE <<>>)
       \o MapContent(Tail(items))

dbParts(content) ==
  IF content.kind = "string" THEN ArrayOf(<<TextPart(content.str)>>)
  ELSE IF content.kind = "array" THEN ArrayOf(MapContent(content.items))
  ELSE ArrayOf(<<>>)

\* the row saved for the assistant message m of the response of r; the
\* response carries no creation time, so the row is stamped with the time of
\* the save
AssistantRowOf(r, m) ==
  [id |-> m.id, chatId |-> req[r].chatId, role |-> m.role,
   parts |-> dbParts(m.content), createdAt |-> clock]

\* generateUUID gives the assistant message an identifier of its own, one
\* per generation: it is named after the generation's stream id
ReplyMessage(r) ==
  ResponseMessage(<<"s", req[r].streamId>>, "assistant",
                  ArrayOf(<<TextPart(Reply)>>))

AssistantRow(r) == AssistantRowOf(r, ReplyMessage(r))

\* a response with the assistant's reply, and one without an assistant entry
PlainResponses(r) == { <<ReplyMessage(r)>>, <<>> }

\* onFinish: the message table after the callback.  The last assistant
\* message of the response is saved; a failed save is caught and logged
MessagesOnFinish(r, response) ==
  LET last == lastAssistantMessage(response)
  IN IF last # NoMessage /\ last.id # <<>> /\ CanSaveMessage(AssistantRowOf(r, last))
     THEN Append(messages, AssistantRowOf(r, last))
     ELSE messages

\* the generation completes with one of the given responses; recorded: the
\* response is kept in the handler's record
GenFinishWith(r, n, responses, recorded) ==
  /\ At(r, "gen")
  /\ req[r].emitted = n
  /\ UNCHANGED <<chats, streams, procvars, cascaded, evicted>>
  /\ LET sid == req[r].streamId
     IN IF req[r].wrapped /\ buffers[sid] # NoBuf
        THEN buffers' = [buffers EXCEPT ![sid].status = "finished"]
        ELSE buffers' = buffers
  /\ \E response \in responses :
       /\ messages' = MessagesOnFinish(r, response)
       /\ Step(r, [req[r] EXCEPT !.pc = "done", !.ended = "finish",
                                 !.response = IF recorded THEN response ELSE <<>>])

\* where the response is not read, it is left out of the handler's record
GenFinishAt(r, n) == GenFinishWith(r, n, PlainResponses(r), FALSE)

GenFinish(r) == GenFinishAt(r, MaxChunks)

\* the responses of a generation of several steps
DraftMessage(r) ==
  ResponseMessage(<<"e", req[r].streamId>>, "assistant",
                  StringOf(<<"Let me check">>))

ToolMessage(r) ==
  ResponseMessage(<<"t", req[r].streamId>>, "tool", ArrayOf(<<ToolResultPart>>))

FinalResponses(r) ==
  { <<DraftMessage(r), ToolMessage(r), ReplyMessage(r)>>,
    <<ResponseMessage(<<"s", req[r].streamId>>, "assistant",
                      ArrayOf(<<TextPart(Reply), ToolCallPart, ReasoningPart>>)),
      ToolMessage(r)>>,
    <<ResponseMessage(<<"s", req[r].streamId>>, "assistant", StringOf(Reply))>>,
    <<ToolMessage(r)>> }

\* what the generation has put together when it fails after its chunks so
\* far: the assistant message with the partial output, or nothing yet
PartialResponse(r) ==
  IF req[r].emitted = 0 THEN <<>>
  ELSE <<ResponseMessage(<<"s", req[r].streamId>>, "assistant",
                         ArrayOf(<<TextPart(<<"Hi">>)>>))>>

\* variant: a failed generation always ends in the completion callback
CompletionAfterError == {TRUE}

\* the completion callback is the route's only save of the assistant
\* message; after an upstream error the generation call runs it or leaves it
\* out, depending on how the upstream failed
CompletionAfterErrorOutcomes == BOOLEAN

\* the upstream generation errors: createDataStream's onError turns the
\* error into the last part of the stream, which the caller and the buffer
\* receive
GenFailWith(r, outcomes) ==
  /\ At(r, "gen")
  /\ UNCHANGED <<chats, streams, procvars, cascaded, evicted>>
  /\ LET sid == req[r].streamId
     IN IF req[r].wrapped /\ buffers[sid] # NoBuf
        THEN buffers' = [buffers EXCEPT ![sid] =
               [status |-> "finished", data |-> Append(buffers[sid].data, ErrorChunk),
                lastUpdatedAt |-> clock]]
        ELSE buffers' = buffers
  /\ \E onFinishRuns \in outcomes :
       /\ messages' = IF onFinishRuns THEN MessagesOnFinish(r, PartialResponse(r))
                      ELSE messages
       /\ Step(r, [req[r] EXCEPT !.pc = "done", !.ended = "error",
                                 !.response = IF onFinishRuns THEN PartialResponse(r)
                                              ELSE <<>>])

GenFail(r) == GenFailWith(r, CompletionAfterErrorOutcomes)

\* -------------------------------------------------------------------- GET
GetBegin(r, hasParam, user, chatId) ==
  LET in == [Idle EXCEPT !.kind = "GET", !.user = user, !.chatId = chatId,
                         !.t0 = clock]
  IN IF ~hasParam THEN [in EXCEPT !.pc = "done", !.resp = "bad_request"]
     ELSE IF getStreamContext = NoContext THEN [in EXCEPT !.pc = "done", !.resp = "404"]
     ELSE [in EXCEPT !.pc = "getStreamIds"]

GetStartIn(r, validity, users) ==
  /\ Free(r)
  /\ started' = started + 1
  /\ UNCHANGED <<dbvars, envvars, uuid, clock, cascaded, evicted>>
  /\ \E hasParam \in validity, user \in users, chatId \in ChatIds :
       /\ ~hasParam => (user = NoUser /\ chatId = 1)
       /\ globalStreamContext' = IF hasParam THEN getStreamContext
                                 ELSE globalStreamContext
       /\ Step(r, GetBegin(r, hasParam, user, chatId))

GetStart(r) == GetStartIn(r, BOOLEAN, Users \cup {NoUser})

\* variant: the session is checked before the list of stream ids is read
GetStreamIdsReadAfterSession(r) ==
  LET streamIds == getStreamIdsByChatId(req[r].chatId)
      activeStreamId == Last(streamIds)
      me == [req[r] EXCEPT !.streamIds = streamIds, !.streamId = activeStreamId]
  IN IF req[r].user = NoUser
     THEN [req[r] EXCEPT !.pc = "done", !.resp = "unauthorized"]
     ELSE IF activeStreamId = NoId THEN [me EXCEPT !.pc = "done", !.resp = "404"]
     ELSE [me EXCEPT !.pc = "getChat"]

\* variant: the first registered stream id is taken as the active one
GetStreamIdsReadFirst(r) ==
  LET streamIds == getStreamIdsByChatId(req[r].chatId)
      activeStreamId == IF streamIds = <<>> THEN NoId ELSE Head(streamIds)
      me == [req[r] EXCEPT !.streamIds = streamIds, !.streamId = activeStreamId]
  IN IF activeStreamId = NoId THEN [me EXCEPT !.pc = "done", !.resp = "404"]
     ELSE IF req[r].user = NoUser
          THEN [me EXCEPT !.pc = "done", !.resp = "unauthorized"]
          ELSE [me EXCEPT !.pc = "getChat"]

GetStreamIdsRead(r) ==
  LET streamIds == getStreamIdsByChatId(req[r].chatId)
      activeStreamId == Last(streamIds)
      me == [req[r] EXCEPT !.streamIds = streamIds, !.streamId = activeStreamId]
  IN IF activeStreamId = NoId THEN [me EXCEPT !.pc = "done", !.resp = "404"]
     ELSE IF req[r].user = NoUser
          THEN [me EXCEPT !.pc = "done", !.resp = "unauthorized"]
          ELSE [me EXCEPT !.pc = "getChat"]

GetStreamIds(r) ==
  /\ At(r, "getStreamIds")
  /\ UNCHANGED <<dbvars, procvars, cascaded, evicted>>
  /\ Step(r, GetStreamIdsRead(r))

\* variant: the visibility of the conversation is not checked
GetChatCheckedAnyReader(r) ==
  LET chat == getChatById(req[r].chatId)
      me == [req[r] EXCEPT !.chat = chat]
  IN IF chat = NoChat THEN [me EXCEPT !.pc = "done", !.resp = "not_found"]
     ELSE [me EXCEPT !.pc = "lookup"]

GetChatChecked(r) ==
  LET chat == getChatById(req[r].chatId)
      me == [req[r] EXCEPT !.chat = chat]
  IN IF chat = NoChat THEN [me EXCEPT !.pc = "done", !.resp = "not_found"]
     ELSE IF chat.visibility = "private" /\ chat.userId # req[r].user
          THEN [me EXCEPT !.pc = "done", !.resp = "forbidden"]
          ELSE [me EXCEPT !.pc = "lookup"]

GetChat(r) ==
  /\ At(r, "getChat")
  /\ UNCHANGED <<dbvars, procvars, cascaded, evicted>>
  /\ Step(r, GetChatChecked(r))

\* variant: a buffer that is found is always discarded
GetLookedUpDiscarding(r) ==
  LET resumableStream == buffers[req[r].streamId]
      me == [req[r] EXCEPT !.found = resumableStream, !.at = clock]
  IN IF resumableStream.status # "absent"
     THEN [me EXCEPT !.pc = "evict"]
     ELSE [me EXCEPT !.pc = "done", !.resp = "404"]

\* getResumableStream and the staleness decision on its result
GetLookedUp(r) ==
  LET resumableStream == buffers[req[r].streamId]
      me == [req[r] EXCEPT !.found = resumableStream, !.at = clock]
  IN IF resumableStream.status # "absent"
     THEN IF isStreamExpired(resumableStream.lastUpdatedAt)
          THEN [me EXCEPT !.pc = "evict"]
          ELSE [me EXCEPT !.pc = "done", !.resp = "data",
                          !.body = resumableStream.data]
     ELSE [me EXCEPT !.pc = "done", !.resp = "404"]

GetResumableStream(r) ==
  /\ At(r, "lookup")
  /\ UNCHANGED <<dbvars, procvars, cascaded, evicted>>
  /\ Step(r, GetLookedUp(r))

\* variant: the stale buffer is reported but not deleted
GetDeleteStaleKept(r) ==
  /\ At(r, "evict")
  /\ evicted' = evicted \cup {req[r].streamId}
  /\ UNCHANGED <<dbvars, procvars, cascaded>>
  /\ Step(r, Respond(r, "200empty"))

\* variant: the handle of the stale stream is removed with its buffer
GetDeleteStaleAndHandle(r) ==
  /\ At(r, "evict")
  /\ buffers' = [buffers EXCEPT ![req[r].streamId] = NoBuf]
  /\ streams' = LET Keep(h) == h.id # req[r].streamId IN SelectSeq(streams, Keep)
  /\ evicted' = evicted \cup {req[r].streamId}
  /\ UNCHANGED <<chats, messages, procvars, cascaded>>
  /\ Step(r, Respond(r, "200empty"))

GetDeleteStale(r) ==
  /\ At(r, "evict")
  /\ buffers' = [buffers EXCEPT ![req[r].streamId] = NoBuf]
  /\ evicted' = evicted \cup {req[r].streamId}
  /\ UNCHANGED <<chats, messages, streams, procvars, cascaded>>
  /\ Step(r, Respond(r, "200empty"))

\* ----------------------------------------------------------------- DELETE
DeleteBegin(r, hasParam, user, id) ==
  LET chat == getChatById(id)
      in == [Idle EXCEPT !.kind = "DELETE", !.user = user, !.chatId = id,
                         !.t0 = clock]
  IN IF ~hasParam THEN [in EXCEPT !.pc = "done", !.resp = "bad_request"]
     ELSE IF user = NoUser THEN [in EXCEPT !.pc = "done", !.resp = "unauthorized"]
     ELSE IF chat = NoChat THEN [in EXCEPT !.pc = "done", !.resp = "not_found"]
     ELSE IF chat.userId # user
          THEN [in EXCEPT !.pc = "done", !.resp = "forbidden"]
          ELSE [in EXCEPT !.pc = "deleteChat"]

DeleteStartIn(r, validity, users) ==
  /\ Free(r)
  /\ started' = started + 1
  /\ UNCHANGED <<dbvars, globalStreamContext, envvars, uuid, clock, cascaded, evicted>>
  /\ \E hasParam \in validity, user \in users, id \in ChatIds :
       /\ ~hasParam => (user = NoUser /\ id = 1)
       /\ Step(r, DeleteBegin(r, hasParam, user, id))

DeleteStart(r) == DeleteStartIn(r, BOOLEAN, Users \cup {NoUser})

DeleteChat(r) ==
  /\ At(r, "deleteChat")
  /\ chats' = [chats EXCEPT ![req[r].chatId] = NoChat]
  /\ messages' = MessagesAfterDelete(req[r].chatId)
  /\ streams' = StreamsAfterDelete(req[r].chatId)
  /\ cascaded' = cascaded \cup (Rows(streams) \ Rows(streams'))
  /\ UNCHANGED <<buffers, procvars, evicted>>
  /\ Step(r, [req[r] EXCEPT !.pc = "deleteStreamIds", !.body = <<chats[req[r].chatId]>>])

DeleteGetStreamIds(r) ==
  /\ At(r, "deleteStreamIds")
  /\ globalStreamContext' = getStreamContext
  /\ UNCHANGED <<dbvars, envvars, uuid, clock, started, cascaded, evicted>>
  /\ LET streamIds == IF globalStreamContext' # NoContext
                      THEN getStreamIdsByChatId(req[r].chatId) ELSE <<>>
     IN IF streamIds = <<>>
        THEN Step(r, Respond(r, "deleted"))
        ELSE Step(r, [req[r] EXCEPT !.pc = "deleteBuffers", !.streamIds = streamIds])

DeleteBuffer(r) ==
  /\ At(r, "deleteBuffers")
  /\ buffers' = [buffers EXCEPT ![Head(req[r].streamIds)] = NoBuf]
  /\ UNCHANGED <<chats, messages, streams, procvars, cascaded, evicted>>
  /\ IF Tail(req[r].streamIds) = <<>>
     THEN Step(r, [Respond(r, "deleted") EXCEPT !.streamIds = <<>>])
     ELSE Step(r, [req[r] EXCEPT !.streamIds = Tail(@)])

\* ------------------------------------------------------------------ clock
Release(r) ==
  /\ req[r].pc = "done"
  /\ req' = [req EXCEPT ![r] = Idle]
  /\ UNCHANGED <<dbvars, procvars, cascaded, evicted>>

\* time passes while handlers generate or wait for requests; the other
\* steps of a handler complete within the instant in which it started
Tick ==
  /\ NoneDone
  /\ \A r \in Slots : req[r].pc \in {"idle", "gen"}
  /\ \E i \in 1..MaxTick : Instant(i) > clock /\ clock' = Instant(i)
  /\ UNCHANGED <<dbvars, globalStreamContext, envvars, uuid, started,
                 cascaded, evicted, req>>

\* Requests that arrive and run within one instant of the clock, from every
\* identity and with every input.
Next ==
  \/ \E r \in Slots : PostStart(r)
  \/ \E r \in Slots : PostGetChat(r)
  \/ \E r \in Slots : PostSaveChat(r)
  \/ \E r \in Slots : PostSaveMessages(r)
  \/ \E r \in Slots : PostCreateStreamId(r)
  \/ \E r \in Slots : PostResumableStream(r)
  \/ \E r \in Slots : GenChunk(r)
  \/ \E r \in Slots : GenFinish(r)
  \/ \E r \in Slots : GetStart(r)
  \/ \E r \in Slots : GetStreamIds(r)
  \/ \E r \in Slots : GetChat(r)
  \/ \E r \in Slots : GetResumableStream(r)
  \/ \E r \in Slots : DeleteStart(r)
  \/ \E r \in Slots : DeleteChat(r)
  \/ \E r \in Slots : DeleteGetStreamIds(r)
  \/ \E r \in Slots : DeleteBuffer(r)
  \/ \E r \in Slots : Release(r)

Spec == Init /\ [][Next]_vars

\* Well-formed POST and GET requests of one regular identity while the clock
\* advances past the staleness threshold.
TimedPostStart(r) == PostStartIn(r, {TRUE}, {"u2"}, {FALSE})

TimedGetStart(r) == GetStartIn(r, {TRUE}, {"u2"})

NextTimed ==
  \/ \E r \in Slots : TimedPostStart(r)
  \/ \E r \in Slots : PostGetChat(r)
  \/ \E r \in Slots : PostSaveChat(r)
  \/ \E r \in Slots : PostSaveMessages(r)
  \/ \E r \in Slots : PostCreateStreamId(r)
  \/ \E r \in Slots : PostResumableStream(r)
  \/ \E r \in Slots : GenChunk(r)
  \/ \E r \in Slots : GenFinish(r)
  \/ \E r \in Slots : TimedGetStart(r)
  \/ \E r \in Slots : GetStreamIds(r)
  \/ \E r \in Slots : GetChat(r)
  \/ \E r \in Slots : GetResumableStream(r)
  \/ \E r \in Slots : GetDeleteStale(r)
  \/ \E r \in Slots : Release(r)
  \/ Tick

InitTimed == Init /\ backendAvailable

SpecTimed == InitTimed /\ [][NextTimed]_vars

\* One identity's generations of MaxResumeChunks chunks each and the GETs
\* that resume them, while the clock advances past the staleness threshold.
ResumePostStart(r) == PostStartOf(r, {TRUE}, {"u2"}, {FALSE}, {1}, {"private"})

ResumeGenChunk(r) == GenChunkUpTo(r, MaxResumeChunks)

ResumeGenFinish(r) == GenFinishAt(r, MaxResumeChunks)

NextResume ==
  \/ \E r \in Slots : ResumePostStart(r)
  \/ \E r \in Slots : PostGetChat(r)
  \/ \E r \in Slots : PostSaveChat(r)
  \/ \E r \in Slots : PostSaveMessages(r)
  \/ \E r \in Slots : PostCreateStreamId(r)
  \/ \E r \in Slots : PostResumableStream(r)
  \/ \E r \in Slots : ResumeGenChunk(r)
  \/ \E r \in Slots : ResumeGenFinish(r)
  \/ \E r \in Slots : TimedGetStart(r)
  \/ \E r \in Slots : GetStreamIds(r)
  \/ \E r \in Slots : GetChat(r)
  \/ \E r \in Slots : GetResumableStream(r)
  \/ \E r \in Slots : GetDeleteStale(r)
  \/ \E r \in Slots : Release(r)
  \/ Tick

SpecResume == InitTimed /\ [][NextResume]_vars

\* The normalizer applied, twice and at any two instants, to every stored
\* history of up to MaxHistory messages and every new user message.
Roles == {"user", "assistant", "system", "data", "tool", "function"}

StoredParts ==
  { ArrayOf(<<TextPart(<<>>), TextPart(<<"a">>), TextPart(<<"b">>)>>),
    ArrayOf(<<ToolInvocationPart, TextPartNoString, ToolResultPart>>),
    StringOf(<<"a">>) }

IncomingParts ==
  { ArrayOf(<<TextPart(<<"a">>), FilePart, TextPart(<<"b">>)>>),
    ArrayOf(<<TextPart(<<>>), TextPart(<<"a">>)>>),
    ArrayOf(<<>>) }

DBMessage(i, role, parts) ==
  [id |-> <<"h", i>>, chatId |-> 1, role |-> role, parts |-> parts,
   createdAt |-> i]

InitNormalizer ==
  /\ InitRoute
  /\ backendAvailable
  /\ \E n \in 0..MaxHistory :
       \E stored \in [1..n -> Roles \X StoredParts], parts \in IncomingParts :
         normalizer =
           [NormalizerIdle EXCEPT
              !.dbMessages = [i \in 1..n |-> DBMessage(i, stored[i][1], stored[i][2])],
              !.incomingUserMessage = UIMessage(<<"c", 1>>, parts, 7)]

Transform ==
  /\ normalizer.calledAt = <<>>
  /\ normalizer' =
       [normalizer EXCEPT
          !.sdkMessages = transformDBMessagesToSDKMessages(
                            normalizer.dbMessages, normalizer.incomingUserMessage),
          !.calledAt = <<clock>>]
  /\ UNCHANGED <<dbvars, globalStreamContext, backendAvailable, crashed, uuid,
                 clock, started, cascaded, evicted, req>>

TransformAgain ==
  /\ Len(normalizer.calledAt) = 1
  /\ normalizer' =
       [normalizer EXCEPT
          !.sdkMessagesAgain = transformDBMessagesToSDKMessages(
                                 normalizer.dbMessages, normalizer.incomingUserMessage),
          !.calledAt = Append(@, clock)]
  /\ UNCHANGED <<dbvars, globalStreamContext, backendAvailable, crashed, uuid,
                 clock, started, cascaded, evicted, req>>

NextNormalizer ==
  \/ Transform
  \/ TransformAgain
  \/ Tick

SpecNormalizer == InitNormalizer /\ [][NextNormalizer]_vars

\* Sequential turns of one identity in one conversation: a turn starts when
\* no request is in flight.  The client stamps its message with its own
\* clock, which shows the server's time or runs ClientAhead ahead of it.
ClientAhead == 2 * maxDuration * MsPerSecond

TurnText(k) == IF k = 1 THEN <<"Hello">> ELSE <<"How are you">>

TurnPostStart(r) ==
  /\ Free(r)
  /\ \A s \in Slots : req[s].pc = "idle"
  /\ started' = started + 1
  /\ UNCHANGED <<dbvars, globalStreamContext, envvars, uuid, clock, cascaded, evicted>>
  /\ \E ahead \in {0, ClientAhead} :
       Step(r, [PostBegin(r, TRUE, "u2", 1, started + 1, "private", FALSE)
                  EXCEPT !.createdAt = clock + ahead,
                         !.parts = ArrayOf(<<TextPart(TurnText(started + 1))>>)])

TurnSaveMessages(r) ==
  PostSaveMessagesWith(r, transformDBMessagesToSDKMessages(
                            getMessagesByChatId(req[r].chatId), IncomingOf(r)))

NextTurns ==
  \/ \E r \in Slots : TurnPostStart(r)
  \/ \E r \in Slots : PostGetChat(r)
  \/ \E r \in Slots : PostSaveChat(r)
  \/ \E r \in Slots : TurnSaveMessages(r)
  \/ \E r \in Slots : PostCreateStreamId(r)
  \/ \E r \in Slots : PostResumableStream(r)
  \/ \E r \in Slots : GenChunk(r)
  \/ \E r \in Slots : GenFinish(r)
  \/ \E r \in Slots : Release(r)
  \/ Tick

SpecTurns == InitTimed /\ [][NextTurns]_vars

\* One identity's conversations: generations that complete with responses of
\* every shape or fail on the way, and the owner's deletes in between.
OutcomePostStart(r) == PostStartOf(r, {TRUE}, {"u2"}, {FALSE}, MsgIds, {"private"})

OutcomeGenFinish(r) == GenFinishWith(r, MaxChunks, FinalResponses(r), TRUE)

OutcomeDeleteStart(r) == DeleteStartIn(r, {TRUE}, {"u2"})

NextOutcomes ==
  \/ \E r \in Slots : OutcomePostStart(r)
  \/ \E r \in Slots : PostGetChat(r)
  \/ \E r \in Slots : PostSaveChat(r)
  \/ \E r \in Slots : PostSaveMessages(r)
  \/ \E r \in Slots : PostCreateStreamId(r)
  \/ \E r \in Slots : PostResumableStream(r)
  \/ \E r \in Slots : GenChunk(r)
  \/ \E r \in Slots : OutcomeGenFinish(r)
  \/ \E r \in Slots : GenFail(r)
  \/ \E r \in Slots : OutcomeDeleteStart(r)
  \/ \E r \in Slots : DeleteChat(r)
  \/ \E r \in Slots : DeleteGetStreamIds(r)
  \/ \E r \in Slots : DeleteBuffer(r)
  \/ \E r \in Slots : Release(r)

SpecOutcomes == Init /\ [][NextOutcomes]_vars

\* The process terminates while handlers are in flight: the handlers and the
\* process-wide handle are gone, the tables and the buffers are kept.  A
\* POST that had saved its user message and not yet registered its stream id
\* is written to the history, with the stream ids its conversation had.
CutOff(r) ==
  req[r].kind = "POST" /\ req[r].saved /\ ~req[r].registered /\ req[r].pc # "done"

Crash ==
  /\ \E r \in Slots : req[r].pc # "idle"
  /\ req' = [r \in Slots |-> Idle]
  /\ globalStreamContext' = NoContext
  /\ crashed' = crashed \cup
       { [chatId |-> req[r].chatId, msgId |-> req[r].msgId,
          streamIds |-> getStreamIdsByChatId(req[r].chatId)] :
         r \in {x \in Slots : CutOff(x)} }
  /\ UNCHANGED <<dbvars, backendAvailable, normalizer, uuid, clock, started,
                 cascaded, evicted>>

CrashGetStart(r) == GetStartIn(r, {TRUE}, {"u2", NoUser})

NextCrash ==
  \/ \E r \in Slots : OutcomePostStart(r)
  \/ \E r \in Slots : PostGetChat(r)
  \/ \E r \in Slots : PostSaveChat(r)
  \/ \E r \in Slots : PostSaveMessages(r)
  \/ \E r \in Slots : PostCreateStreamId(r)
  \/ \E r \in Slots : PostResumableStream(r)
  \/ \E r \in Slots : GenChunk(r)
  \/ \E r \in Slots : GenFinish(r)
  \/ \E r \in Slots : CrashGetStart(r)
  \/ \E r \in Slots : GetStreamIds(r)
  \/ \E r \in Slots : GetChat(r)
  \/ \E r \in Slots : GetResumableStream(r)
  \/ \E r \in Slots : Release(r)
  \/ Crash

SpecCrash == Init /\ [][NextCrash]_vars

\* One identity's conversations over time: generations that complete, fail
\* or are left behind by the wall-clock ceiling, GETs that evict stale
\* buffers, and the owner's deletes.
NextLifetime ==
  \/ \E r \in Slots : OutcomePostStart(r)
  \/ \E r \in Slots : PostGetChat(r)
  \/ \E r \in Slots : PostSaveChat(r)
  \/ \E r \in Slots : PostSaveMessages(r)
  \/ \E r \in Slots : PostCreateStreamId(r)
  \/ \E r \in Slots : PostResumableStream(r)
  \/ \E r \in Slots : GenChunk(r)
  \/ \E r \in Slots : GenFinish(r)
  \/ \E r \in Slots : GenFail(r)
  \/ \E r \in Slots : TimedGetStart(r)
  \/ \E r \in Slots : GetStreamIds(r)
  \/ \E r \in Slots : GetChat(r)
  \/ \E r \in Slots : GetResumableStream(r)
  \/ \E r \in Slots : GetDeleteStale(r)
  \/ \E r \in Slots : OutcomeDeleteStart(r)
  \/ \E r \in Slots : DeleteChat(r)
  \/ \E r \in Slots : DeleteGetStreamIds(r)
  \/ \E r \in Slots : DeleteBuffer(r)
  \/ \E r \in Slots : Release(r)
  \/ Tick

SpecLifetime == InitTimed /\ [][NextLifetime]_vars

\* One identity's POSTs on one conversation, interleaved at every await, the
\* read of the history and the save of the new message being two steps, and
\* the owner's deletes in between.
NextInterleave ==
  \/ \E r \in Slots : OutcomePostStart(r)
  \/ \E r \in Slots : PostGetChat(r)
  \/ \E r \in Slots : PostSaveChat(r)
  \/ \E r \in Slots : PostGetMessages(r)
  \/ \E r \in Slots : PostSaveAfterRead(r)
  \/ \E r \in Slots : PostCreateStreamId(r)
  \/ \E r \in Slots : PostResumableStream(r)
  \/ \E r \in Slots : GenChunk(r)
  \/ \E r \in Slots : GenFinish(r)
  \/ \E r \in Slots : OutcomeDeleteStart(r)
  \/ \E r \in Slots : DeleteChat(r)
  \/ \E r \in Slots : DeleteGetStreamIds(r)
  \/ \E r \in Slots : DeleteBuffer(r)
  \/ \E r \in Slots : Release(r)

SpecInterleave == InitTimed /\ [][NextInterleave]_vars

\* One identity's private and public conversations and the GETs of every
\* caller, the owner, another identity and one without a session, while the
\* clock advances past the staleness threshold.
ReaderPostStart(r) ==
  PostStartOf(r, {TRUE}, {"u2"}, {FALSE}, MsgIds, {"private", "public"})

NextReaders ==
  \/ \E r \in Slots : ReaderPostStart(r)
  \/ \E r \in Slots : PostGetChat(r)
  \/ \E r \in Slots : PostSaveChat(r)
  \/ \E r \in Slots : PostSaveMessages(r)
  \/ \E r \in Slots : PostCreateStreamId(r)
  \/ \E r \in Slots : PostResumableStream(r)
  \/ \E r \in Slots : GenChunk(r)
  \/ \E r \in Slots : GenFinish(r)
  \/ \E r \in Slots : GetStart(r)
  \/ \E r \in Slots : GetStreamIds(r)
  \/ \E r \in Slots : GetChat(r)
  \/ \E r \in Slots : GetResumableStream(r)
  \/ \E r \in Slots : GetDeleteStale(r)
  \/ \E r \in Slots : Release(r)
  \/ Tick

SpecReaders == InitTimed /\ [][NextReaders]_vars

\* One identity's generations of MaxResumeChunks chunks whose callers go
\* away while the output is produced.  result.consumeStream() reads the
\* generation to its end whoever reads the response, so every step of a
\* handler that can be taken is taken in the end; only the clock is free to
\* stop.
Disconnect(r) ==
  /\ NoneDone
  /\ req[r].kind = "POST" /\ req[r].pc = "gen" /\ ~req[r].disconnected
  /\ UNCHANGED <<dbvars, procvars, cascaded, evicted>>
  /\ Step(r, [req[r] EXCEPT !.disconnected = TRUE])

\* variant: the generation goes on only while its caller reads
GenChunkWhileConnected(r) ==
  ~req[r].disconnected /\ GenChunkUpTo(r, MaxResumeChunks)

DetachGenChunk(r) == GenChunkUpTo(r, MaxResumeChunks)

\* the upstream does not fail and the response has the assistant's message
DetachGenFinish(r) ==
  GenFinishWith(r, MaxResumeChunks, {<<ReplyMessage(r)>>}, FALSE)

DetachStep(r) ==
  \/ PostGetChat(r)
  \/ PostSaveChat(r)
  \/ PostSaveMessages(r)
  \/ PostCreateStreamId(r)
  \/ PostResumableStream(r)
  \/ DetachGenChunk(r)
  \/ DetachGenFinish(r)

NextDetach ==
  \/ \E r \in Slots : ResumePostStart(r)
  \/ \E r \in Slots : DetachStep(r)
  \/ \E r \in Slots : Disconnect(r)
  \/ \E r \in Slots : Release(r)
  \/ Tick

SpecDetach ==
  /\ Init
  /\ [][NextDetach]_vars
  /\ \A r \in Slots : WF_vars(DetachStep(r))
  /\ \A r \in Slots : WF_vars(Release(r))

\* ------------------------------------------------------------ properties
IsDone(r) == req[r].pc = "done"

\* the POST in slot r has issued its generation call
GenerationIssued(r) ==
  req[r].kind = "POST" /\ (req[r].pc = "gen" \/ req[r].resp = "stream")

Quota(u) == maxMessagesPerDay(userType(u))

\* the stream ids whose handle went with a deleted conversation
CascadedIds == {h.id : h \in cascaded}

\* C1: a POST that has issued its generation call, and so any POST that has
\* produced a chunk, has completed createStreamId before; once a chunk is
\* out, the handle is in the list of stream ids that a GET of the
\* conversation reads, for as long as the conversation has not been deleted.
C1_RegisteredBeforeGeneration ==
  \A r \in Slots :
    /\ GenerationIssued(r) => req[r].registered
    /\ (req[r].kind = "POST" /\ req[r].emitted >= 1) =>
          /\ req[r].registered
          /\ req[r].streamId \notin CascadedIds =>
                \E i \in 1..Len(getStreamIdsByChatId(req[r].chatId)) :
                   getStreamIdsByChatId(req[r].chatId)[i] = req[r].streamId

C1_Witness ==
  \E p \in Slots, g \in Slots :
    /\ req[p].kind = "POST" /\ req[p].pc = "gen" /\ req[p].emitted >= 1
    /\ req[g].kind = "GET" /\ req[g].pc = "getChat"
    /\ req[g].streamId = req[p].streamId

\* C2: a POST that has issued its generation call has inserted its user
\* message row before.
C2_SavedBeforeGeneration ==
  \A r \in Slots : GenerationIssued(r) => req[r].saved

C2_Witness ==
  \E r \in Slots :
    /\ req[r].kind = "POST" /\ req[r].pc = "gen" /\ req[r].emitted = 0
    /\ \E m \in Rows(messages) : m.id = req[r].msgId /\ m.role = "user"

\* C3: a request that has ended in a validation, authorization, quota or
\* not-found error has changed no table and no buffer in any of its steps.
C3_ErrorsLeaveNoSideEffects ==
  \A r \in Slots :
    (IsDone(r) /\ req[r].resp \in ErrorResponses) => ~req[r].wrote

C3_Witness ==
  \E r \in Slots :
    /\ IsDone(r) /\ req[r].kind = "POST" /\ req[r].resp = "forbidden"
    /\ messages # <<>> /\ streams # <<>>

\* C4: a POST of an identity whose message count in the trailing 24 hours
\* equals its quota is answered rate_limit at once and changes no table.
C4_QuotaRejects ==
  [][\A r \in Slots :
       ( /\ req[r].pc = "idle"
         /\ req'[r].kind = "POST"
         /\ req'[r].resp # "bad_request"
         /\ req'[r].user # NoUser
         /\ getMessageCountByUserId(req'[r].user) = Quota(req'[r].user) )
       => ( /\ req'[r].pc = "done"
            /\ req'[r].resp = "rate_limit"
            /\ dbvars' = dbvars )]_vars

C4_Witness ==
  \E r \in Slots :
    /\ IsDone(r) /\ req[r].resp = "rate_limit" /\ ~req[r].wrote
    /\ getMessageCountByUserId(req[r].user) = Quota(req[r].user)

\* C5: with the buffer backend in place, a GET or DELETE on an existing
\* conversation by a caller who is not permitted on it is answered
\* unauthorized (no session) or forbidden, the same answer whether or not a
\* stream is registered for the conversation.
NotPermitted(r) ==
  LET chat == chats[req[r].chatId]
  IN /\ chat # NoChat
     /\ \/ req[r].user = NoUser
        \/ /\ chat.userId # req[r].user
           /\ req[r].kind = "GET" => chat.visibility = "private"

C5_NoStreamDisclosure ==
  \A r \in Slots :
    ( /\ IsDone(r)
      /\ req[r].kind \in {"GET", "DELETE"}
      /\ req[r].resp # "bad_request"
      /\ globalStreamContext # NoContext
      /\ NotPermitted(r) )
    => req[r].resp = IF req[r].user = NoUser THEN "unauthorized" ELSE "forbidden"

\* C6: a GET answers with buffered data only when the caller has a session
\* and the conversation row it checked is owned by the caller or is public.
C6_DataOnlyToReaders ==
  \A r \in Slots :
    (req[r].kind = "GET" /\ req[r].resp = "data") =>
       /\ req[r].user # NoUser
       /\ req[r].chat # NoChat
       /\ req[r].chat.userId = req[r].user \/ req[r].chat.visibility = "public"

C6_Witness ==
  \E r \in Slots :
    /\ req[r].kind = "GET" /\ req[r].resp = "data"
    /\ req[r].chat.userId # req[r].user /\ req[r].chat.visibility = "public"

\* C7: a step of a request that adds a message row or a stream handle to
\* conversation C, or deletes C, is a step of a request of C's owner.
C7_OnlyOwnerWrites ==
  [][\A r \in Slots, c \in ChatIds :
       (req'[r] # req[r] /\ req[r].pc # "idle") =>
          /\ (\E m \in Rows(messages') \ Rows(messages) : m.chatId = c)
                => chats'[c].userId = req[r].user
          /\ (\E h \in Rows(streams') \ Rows(streams) : h.chatId = c)
                => chats'[c].userId = req[r].user
          /\ (chats[c] # NoChat /\ chats'[c] = NoChat)
                => chats[c].userId = req[r].user]_vars

\* the GET in slot r passed the session and the ownership/visibility checks
Authorized(r) ==
  /\ req[r].kind = "GET"
  /\ req[r].user # NoUser
  /\ req[r].chat # NoChat
  /\ req[r].chat.userId = req[r].user \/ req[r].chat.visibility = "public"

\* milliseconds between the last update of the buffer the GET in slot r
\* found and its reading of the clock
Elapsed(r) == req[r].at - req[r].found.lastUpdatedAt

\* whole seconds of the elapsed time exceed StaleSeconds from here on
StaleFrom == (StaleSeconds + 1) * MsPerSecond

\* C8: a finished GET looked up the last stream id of the list it read, and
\* no other.  With no stream id in the list it answered 404; once
\* authorized it answered 404 when that id has no buffer, the buffer's data
\* when the buffer is there and not stale, and 200 with an empty body when
\* the buffer is stale, having deleted the buffer itself.
C8_LookupAnswer ==
  \A r \in Slots :
    (IsDone(r) /\ req[r].kind = "GET" /\ req[r].resp # "bad_request") =>
      /\ req[r].streamId = Last(req[r].streamIds)
      /\ req[r].streamIds = <<>> => req[r].resp = "404"
      /\ Authorized(r) =>
           \/ /\ req[r].resp = "404"
              /\ req[r].found = NoBuf
              /\ buffers[req[r].streamId] = NoBuf
           \/ /\ req[r].resp = "data"
              /\ req[r].found # NoBuf
              /\ buffers[req[r].streamId] = req[r].found
              /\ req[r].body = req[r].found.data
              /\ Elapsed(r) < StaleFrom
           \/ /\ req[r].resp = "200empty"
              /\ req[r].found # NoBuf
              /\ req[r].body = <<>>
              /\ Elapsed(r) >= StaleFrom
              /\ buffers[req[r].streamId] = NoBuf

C8_Witness ==
  \E r \in Slots :
    /\ IsDone(r) /\ Authorized(r) /\ req[r].resp = "data"
    /\ Len(req[r].streamIds) = 2 /\ req[r].streamId = req[r].streamIds[2]
    /\ req[r].body # <<>>

\* C9 as stated: the GET path decides stale exactly when the elapsed time
\* has reached the threshold of StaleSeconds seconds.
C9_StaleAtThreshold ==
  \A r \in Slots :
    (req[r].kind = "GET" /\ req[r].found # NoBuf) =>
      /\ (req[r].pc = "evict" \/ req[r].resp = "200empty")
            <=> Elapsed(r) >= StaleSeconds * MsPerSecond
      /\ req[r].resp = "data" => Elapsed(r) < StaleSeconds * MsPerSecond

\* C9 amended: the GET path decides stale exactly when the elapsed time has
\* reached StaleSeconds + 1 seconds, that is when its whole seconds exceed
\* StaleSeconds; a GET at or beyond that point never answers with the data.
C9_StaleAfterThreshold ==
  \A r \in Slots :
    (req[r].kind = "GET" /\ req[r].found # NoBuf) =>
      /\ (req[r].pc = "evict" \/ req[r].resp = "200empty")
            <=> Elapsed(r) >= StaleFrom
      /\ req[r].resp = "data" => Elapsed(r) < StaleFrom

C9_Witness ==
  \E r \in Slots :
    /\ req[r].kind = "GET" /\ req[r].found # NoBuf /\ req[r].resp = "data"
    /\ Elapsed(r) >= StaleSeconds * MsPerSecond
    /\ Elapsed(r) < StaleFrom

\* C10: once a GET has deleted a stale buffer, that stream id has no buffer
\* again, and every GET that looks the id up from then on answers 404.
C10_EvictedStaysAbsent ==
  [][/\ \A s \in evicted' : buffers'[s] = NoBuf
     /\ \A r \in Slots :
          (req[r].pc = "lookup" /\ req'[r] # req[r] /\ req[r].streamId \in evicted)
            => (req'[r].resp = "404" /\ req'[r].body = <<>>)]_vars

C10_Witness ==
  \E r \in Slots :
    /\ IsDone(r) /\ req[r].kind = "GET" /\ req[r].resp = "404"
    /\ req[r].streamId \in evicted
    /\ \E p \in Slots : req[p].kind = "POST" /\ req[p].pc = "gen"
                          /\ req[p].streamId = req[r].streamId

\* C11: when a DELETE by the owner has removed conversation C and answered,
\* no stream id that was registered for C before the delete has a buffer any
\* more, and the response carries the conversation record that was deleted.
C11_DeleteLeavesNoBuffer ==
  \A r \in Slots :
    ( /\ IsDone(r) /\ req[r].kind = "DELETE" /\ req[r].resp = "deleted"
      /\ req[r].body # <<>> /\ req[r].body[1] # NoChat )
    => /\ \A h \in cascaded : h.chatId = req[r].chatId => buffers[h.id] = NoBuf
       /\ req[r].body[1].userId = req[r].user

\* C12: stream ids are numbered in the order generateUUID hands them out.
\* Any two generation attempts hold two different stream ids, and the list
\* of stream ids of a conversation is strictly increasing: no id twice, and
\* the ids in the order in which their registrations were made.
C12_FreshIdsInOrder ==
  /\ \A p \in Slots, q \in Slots :
       ( /\ p # q
         /\ req[p].kind = "POST" /\ req[p].streamId # NoId
         /\ req[q].kind = "POST" /\ req[q].streamId # NoId )
       => req[p].streamId # req[q].streamId
  /\ \A c \in ChatIds :
       LET ids == getStreamIdsByChatId(c)
       IN \A i \in 1..Len(ids), j \in 1..Len(ids) : i < j => ids[i] < ids[j]

C12_Witness ==
  \E p \in Slots, q \in Slots :
    /\ req[p].kind = "POST" /\ req[p].pc = "gen"
    /\ req[q].kind = "POST" /\ req[q].pc = "gen"
    /\ req[p].chatId = req[q].chatId
    /\ getStreamIdsByChatId(req[p].chatId) = <<req[p].streamId, req[q].streamId>>

\* the chunks of a generation are numbered 1, 2, ... in the order of output
Chunks(k) == [i \in 1..k |-> i]

\* C13: a GET that answers with buffered data returns the buffer as found,
\* and that is exactly the chunks the generation has appended so far, in
\* order: while the writer of the stream is generating, as many chunks as it
\* has put out; once the generation has finished, all of them.
C13_LookupReturnsPrefix ==
  \A g \in Slots :
    (IsDone(g) /\ req[g].kind = "GET" /\ req[g].resp = "data") =>
      /\ req[g].body = req[g].found.data
      /\ req[g].body = Chunks(Len(req[g].body))
      /\ \A p \in Slots :
           ( /\ req[p].kind = "POST" /\ req[p].pc = "gen"
             /\ req[p].streamId = req[g].streamId )
           => ( /\ req[g].found.status = "live"
                /\ req[g].body = Chunks(req[p].emitted) )
      /\ req[g].found.status = "finished"
           => req[g].body = Chunks(MaxResumeChunks)

C13_Witness ==
  \E g \in Slots, p \in Slots :
    /\ IsDone(g) /\ req[g].kind = "GET" /\ req[g].resp = "data"
    /\ req[p].kind = "POST" /\ req[p].pc = "gen"
    /\ req[p].streamId = req[g].streamId
    /\ req[g].body = <<1, 2>>
    /\ req[p].emitted < MaxResumeChunks

\* C14: while the buffer backend is not configured, no handle and no buffer
\* exists; a POST whose stream id is registered goes on to return the
\* generation output to its caller, unwrapped, with its user message saved;
\* every GET that names a conversation is answered 404 at once; and no
\* request fails in or after the step that asks for the stream context.
C14_DegradesToPassThrough ==
  ~backendAvailable =>
    /\ globalStreamContext = NoContext
    /\ \A s \in UUIDs : buffers[s] = NoBuf
    /\ \A r \in Slots :
         /\ (req[r].kind = "POST" /\ req[r].registered /\ req[r].pc # "generate")
              => ( /\ req[r].resp = "stream"
                   /\ req[r].pc \in {"gen", "done"}
                   /\ req[r].saved
                   /\ ~req[r].wrapped )
         /\ req[r].kind = "GET"
              => (IsDone(r) /\ req[r].resp \in {"404", "bad_request"})
         /\ req[r].kind = "DELETE" /\ req[r].pc = "done" /\ req[r].wrote
              => req[r].resp = "deleted"
         /\ req[r].resp = "error500"
              => (req[r].kind = "POST" /\ req[r].emitted = 0)

C14_Witness ==
  /\ ~backendAvailable
  /\ \E p \in Slots, g \in Slots :
       /\ req[p].kind = "POST" /\ req[p].pc = "gen" /\ req[p].emitted >= 1
       /\ req[p].saved /\ req[p].registered
       /\ IsDone(g) /\ req[g].kind = "GET" /\ req[g].resp = "404"
       /\ req[g].chatId = req[p].chatId /\ req[g].user = req[p].user

\* C15: the first handle constructed is the only one.  Once a handle is
\* stored it is never replaced, so every later call of getStreamContext
\* returns it, and every handler that wrapped its stream or went on to read
\* a buffer did so with that handle.
C15_ConstructedOnce ==
  [][ /\ globalStreamContext' \in {NoContext, NoContext + 1}
      /\ globalStreamContext # NoContext
           => globalStreamContext' = globalStreamContext
      /\ \A r \in Slots :
           (req'[r].wrapped \/ req'[r].pc \in {"getStreamIds", "deleteBuffers"})
             => globalStreamContext' = NoContext + 1 ]_vars

C15_Witness ==
  /\ globalStreamContext = NoContext + 1
  /\ \E p \in Slots, q \in Slots :
       /\ p # q
       /\ req[p].kind = "POST" /\ req[p].pc = "gen" /\ req[p].wrapped
       /\ req[q].kind = "POST" /\ req[q].pc = "gen" /\ req[q].wrapped

\* the normalizer has returned
Transformed == normalizer.calledAt # <<>>

\* the position of the stored message with the given id, 0 when there is none
StoredIndex(id) ==
  IF \E j \in 1..Len(normalizer.dbMessages) : normalizer.dbMessages[j].id = id
  THEN CHOOSE j \in 1..Len(normalizer.dbMessages) : normalizer.dbMessages[j].id = id
  ELSE 0

\* the texts t1, ..., tn with a line break between each two neighbours
RECURSIVE LineBreakJoined(_)
LineBreakJoined(texts) ==
  IF Len(texts) = 0 THEN <<>>
  ELSE IF Len(texts) = 1 THEN texts[1]
  ELSE LineBreakJoined(SubSeq(texts, 1, Len(texts) - 1))
         \o <<NL>> \o texts[Len(texts)]

\* the texts of the text-typed parts, in order
TextTyped(items) ==
  LET IsText(part) == part.type = "text"
      kept == SelectSeq(items, IsText)
  IN [i \in 1..Len(kept) |-> kept[i].text]

\* C16: the normalizer's output is not empty; its last entry has role user,
\* the new message's id and, as content, the texts of the new message's
\* text-typed parts joined by line breaks; every entry before it comes from
\* a stored message, and these entries stand in the order of the stored
\* messages they come from.
C16_EndsInNewUserEntry ==
  Transformed =>
    LET out == normalizer.sdkMessages
        new == normalizer.incomingUserMessage
        n == Len(out)
    IN /\ n >= 1
       /\ out[n].role = "user"
       /\ out[n].id = new.id
       /\ out[n].content = LineBreakJoined(TextTyped(new.parts.items))
       /\ \A i \in 1..(n - 1) : StoredIndex(out[i].id) # 0
       /\ \A i \in 1..(n - 1), k \in 1..(n - 1) :
            i < k => StoredIndex(out[i].id) < StoredIndex(out[k].id)

C16_Witness ==
  /\ Transformed
  /\ Len(normalizer.sdkMessages) = 3
  /\ normalizer.sdkMessages[3].content = <<NL, "a">>
  /\ normalizer.sdkMessages[1].role = "user"
  /\ normalizer.sdkMessages[2].role = "assistant"

\* a stored role the generation call does not take as it is
Unrecognized(role) == role \notin {"user", "assistant", "system"}

\* the stored message is in the output as an assistant entry whose content
\* opens with the archival marker
Folded(dbMsg) ==
  \E i \in 1..(Len(normalizer.sdkMessages) - 1) :
    /\ normalizer.sdkMessages[i].id = dbMsg.id
    /\ normalizer.sdkMessages[i].role = "assistant"
    /\ normalizer.sdkMessages[i].content # <<>>
    /\ normalizer.sdkMessages[i].content[1] = ArchivedOpen

\* the stored message has no entry in the output
Absent(dbMsg) ==
  \A i \in 1..(Len(normalizer.sdkMessages) - 1) :
    normalizer.sdkMessages[i].id # dbMsg.id

\* C17: every stored message with a role outside user, assistant, system is
\* folded into an assistant entry that opens with the archival marker, and
\* the output has one entry per stored message plus the new user entry.
C17_FoldsEveryOtherRole ==
  Transformed =>
    /\ Len(normalizer.sdkMessages) = Len(normalizer.dbMessages) + 1
    /\ \A j \in 1..Len(normalizer.dbMessages) :
         Unrecognized(normalizer.dbMessages[j].role)
           => Folded(normalizer.dbMessages[j])

\* C18: no entry of the output has a role outside user, assistant, system,
\* and the stored messages with such a role are either all absent from the
\* output or all folded into assistant entries with the archival marker.
C18_OnePolicyForOtherRoles ==
  Transformed =>
    /\ \A i \in 1..Len(normalizer.sdkMessages) :
         ~Unrecognized(normalizer.sdkMessages[i].role)
    /\ \/ \A j \in 1..Len(normalizer.dbMessages) :
            Unrecognized(normalizer.dbMessages[j].role)
              => Absent(normalizer.dbMessages[j])
       \/ \A j \in 1..Len(normalizer.dbMessages) :
            Unrecognized(normalizer.dbMessages[j].role)
              => Folded(normalizer.dbMessages[j])

RoleContent(sdkMessages) ==
  [i \in 1..Len(sdkMessages) |-> <<sdkMessages[i].role, sdkMessages[i].content>>]

\* turn 1 is stored: its user message and the assistant reply to it
FirstTurnStored ==
  /\ \E m \in Rows(messages) : m.id = <<"c", 1>> /\ m.role = "user"
  /\ \E m \in Rows(messages) : m.id = <<"s", 1>> /\ m.role = "assistant"

\* C20: the sequence the normalizer built for turn 2, after turn 1 was stored
\* with its reply, is user "Hello", assistant "Hi there", then the new user
\* entry.
C20_SecondTurnHistory ==
  \A r \in Slots :
    ( /\ req[r].kind = "POST" /\ req[r].msgId = <<"c", 2>>
      /\ req[r].messagesForSDK # <<>>
      /\ FirstTurnStored )
    => RoleContent(req[r].messagesForSDK) =
         << <<"user", <<"Hello">>>>, <<"assistant", Reply>>,
            <<"user", <<"How are you">>>> >>

\* the generation of the POST in slot r ends in this step
GenerationEnds(r) ==
  req[r].kind = "POST" /\ req[r].pc = "gen" /\ req'[r].pc = "done"

\* the positions of the assistant-role entries of a response
AssistantAt(response) ==
  {i \in 1..Len(response) : response[i].role = "assistant"}

LastAssistantAt(response) ==
  CHOOSE i \in AssistantAt(response) : \A k \in AssistantAt(response) : k <= i

\* the stored shape of a response content: a string is one text part; of an
\* array, the text and tool-call parts, in order
StoredShape(content) ==
  IF content.kind = "string"
  THEN <<[type |-> "text", text |-> content.str, toolName |-> "", json |-> ""]>>
  ELSE LET Kept(part) == part.type \in {"text", "tool-call"}
           kept == SelectSeq(content.items, Kept)
       IN [i \in 1..Len(kept) |->
            [type |-> IF kept[i].type = "text" THEN "text" ELSE "tool-invocation",
             text |-> kept[i].text, toolName |-> kept[i].toolName,
             json |-> kept[i].json]]

ShapeOf(parts) ==
  [i \in 1..Len(parts.items) |->
    [type |-> parts.items[i].type, text |-> parts.items[i].text,
     toolName |-> parts.items[i].toolName, json |-> parts.items[i].json]]

\* C21: the step in which a generation completes leaves the request's
\* response the stream it was, and changes the message table in one way
\* only: when the final response has an assistant entry and the commit goes
\* through (the id is new and the conversation is there), exactly one row is
\* appended, with the id and the flattened content of the last assistant
\* entry, in the conversation of the request; otherwise no row is added.
C21_OneRowOnCompletion ==
  [][\A r \in Slots :
       (GenerationEnds(r) /\ req'[r].ended = "finish") =>
         LET response == req'[r].response
             c == req[r].chatId
         IN /\ req'[r].resp = "stream"
            /\ IF /\ AssistantAt(response) # {}
                  /\ ~HasMessageId(response[LastAssistantAt(response)].id)
                  /\ chats[c] # NoChat
               THEN /\ Len(messages') = Len(messages) + 1
                    /\ SubSeq(messages', 1, Len(messages)) = messages
                    /\ LET row == messages'[Len(messages')]
                           last == response[LastAssistantAt(response)]
                       IN /\ row.id = last.id
                          /\ row.chatId = c
                          /\ row.role = "assistant"
                          /\ ShapeOf(row.parts) = StoredShape(last.content)
               ELSE messages' = messages]_vars

C21_Witness ==
  \E r \in Slots :
    /\ IsDone(r) /\ req[r].kind = "POST" /\ req[r].ended = "finish"
    /\ Len(req[r].response) = 3
    /\ req[r].response[1].role = "assistant"
    /\ \E m \in Rows(messages) :
         /\ m.id = req[r].response[3].id /\ m.chatId = req[r].chatId
         /\ m.role = "assistant"
    /\ \A m \in Rows(messages) : m.id # req[r].response[1].id

\* C22: a generation whose upstream errors ends its response stream with the
\* terminal error part, and when it had put out a chunk before and the
\* conversation is still there, the step adds an assistant message row with
\* the partial output to the conversation.
C22_ErrorEndsStreamAndPersists ==
  [][\A r \in Slots :
       (GenerationEnds(r) /\ req'[r].ended # "finish") =>
         /\ req'[r].ended = "error"
         /\ req'[r].resp = "stream"
         /\ (req[r].emitted >= 1 /\ chats[req[r].chatId] # NoChat) =>
              \E m \in Rows(messages') \ Rows(messages) :
                 m.chatId = req[r].chatId /\ m.role = "assistant"]_vars

\* the assistant message of the generation of the POST in slot r is stored
Persisted(r) ==
  /\ IsDone(r) /\ req[r].ended = "finish"
  /\ \E m \in Rows(messages) :
       /\ m.id = <<"s", req[r].streamId>> /\ m.chatId = req[r].chatId
       /\ m.role = "assistant"

\* C23: a generation whose caller has disconnected still completes and has
\* its assistant message stored, unless the wall-clock ceiling ends the
\* handler first.
C23_DetachedGenerationCompletes ==
  \A r \in Slots :
    (req[r].kind = "POST" /\ req[r].pc = "gen" /\ req[r].disconnected)
      ~> (Persisted(r) \/ ~Alive(r))

C23_Witness ==
  \E r \in Slots :
    /\ Persisted(r) /\ req[r].disconnected /\ Alive(r)
    /\ req[r].emitted = MaxResumeChunks

\* the GET in slot r has answered a request that names a conversation whose
\* POST k was cut off
AnsweredAfterCrash(r, k) ==
  /\ IsDone(r) /\ req[r].kind = "GET" /\ req[r].resp # "bad_request"
  /\ k \in crashed /\ k.chatId = req[r].chatId

InHistory(k) ==
  \E i \in 1..Len(getMessagesByChatId(k.chatId)) :
    /\ getMessagesByChatId(k.chatId)[i].id = k.msgId
    /\ getMessagesByChatId(k.chatId)[i].role = "user"

DeletedNow(c) == chats[c] # NoChat /\ chats'[c] = NoChat

\* C25: no step changes or removes a registered stream handle other than
\* the delete of its conversation: the handles of the conversations that are
\* not deleted in a step are, unchanged and in their order, the front of the
\* handle table after the step, whatever the step is: a chunk, the
\* completion or failure of a generation, the clock passing the ceiling of a
\* handler, or a GET that evicts a buffer.
C25_HandleStaysUntilDelete ==
  [][LET Stays(h) == ~DeletedNow(h.chatId)
         staying == SelectSeq(streams, Stays)
     IN /\ Len(streams') >= Len(staying)
        /\ SubSeq(streams', 1, Len(staying)) = staying
        /\ \A c \in ChatIds : ~DeletedNow(c) =>
             \A i \in 1..Len(getStreamIdsByChatId(c)) :
               getStreamIdsByChatId(c)[i] \in
                 {streams'[j].id : j \in {x \in 1..Len(streams') : streams'[x].chatId = c}}]_vars

C25_Witness ==
  \E a \in Slots, f \in Slots :
    /\ req[a].kind = "POST" /\ req[a].pc = "gen" /\ ~Alive(a)
    /\ req[a].streamId \in evicted
    /\ req[f].kind = "POST" /\ IsDone(f) /\ req[f].ended = "error"
    /\ req[f].chatId = req[a].chatId
    /\ getStreamIdsByChatId(req[a].chatId) = <<req[a].streamId, req[f].streamId>>

\* C26: no identity ever has more user messages stored within the trailing
\* 24 hours than its daily quota allows.
C26_CountWithinQuota ==
  \A u \in Users : getMessageCountByUserId(u) <= Quota(u)

\* the POST in slot r has finished a generation that was under way when its
\* conversation was deleted, the DELETE has finished too, and the
\* conversation has not been created again
OutlivedDelete(r) ==
  /\ IsDone(r) /\ req[r].kind = "POST" /\ req[r].resp = "stream"
  /\ req[r].streamId \in CascadedIds
  /\ chats[req[r].chatId] = NoChat
  /\ \A d \in Slots : req[d].kind # "DELETE"

NoMessageLeft(c) == \A m \in Rows(messages) : m.chatId # c

\* C27: when a POST's generation and a DELETE of its conversation have both
\* finished, the conversation has no message row and none of its stream ids
\* has a buffer.
C27_DeleteLeavesNothing ==
  \A r \in Slots :
    OutlivedDelete(r) =>
      /\ NoMessageLeft(req[r].chatId)
      /\ \A h \in cascaded : h.chatId = req[r].chatId => buffers[h.id] = NoBuf

\* the positions of the sequence built for the POST in slot r that carry the
\* id of its new message
NewMessageAt(r) ==
  {i \in 1..Len(req[r].messagesForSDK) : req[r].messagesForSDK[i].id = req[r].msgId}

\* C28: the sequence built for a POST ends in the entry of the new user
\* message, and when the id of the new message was not in the store as the
\* history was read, that last entry is the only one with its id; so it is
\* for every sequence handed to a generation call.
C28_NewMessageOnceAndLast ==
  \A r \in Slots :
    (req[r].kind = "POST" /\ req[r].messagesForSDK # <<>>) =>
      LET n == Len(req[r].messagesForSDK)
      IN /\ req[r].messagesForSDK[n].id = req[r].msgId
         /\ req[r].messagesForSDK[n].role = "user"
         /\ ~req[r].inStore => NewMessageAt(r) = {n}

C28_Witness ==
  \E p \in Slots, q \in Slots :
    /\ req[p].kind = "POST" /\ req[p].pc = "gen"
    /\ req[q].kind = "POST" /\ req[q].pc = "gen"
    /\ req[p].chatId = req[q].chatId
    /\ Len(req[p].messagesForSDK) = 1
    /\ Len(req[q].messagesForSDK) = 2
    /\ req[q].messagesForSDK[1].id = req[p].msgId
    /\ ~req[q].inStore /\ NewMessageAt(q) = {2}

\* the user message rows and the stream handles of a conversation
UserMessagesOf(c) ==
  {i \in 1..Len(messages) : messages[i].chatId = c /\ messages[i].role = "user"}

HandlesOf(c) == {i \in 1..Len(streams) : streams[i].chatId = c}

\* C29: a conversation never has more stream handles than user messages,
\* and a POST that has returned its stream response has inserted its user
\* message row and its stream handle.
C29_HandlesWithinUserMessages ==
  /\ \A c \in ChatIds : Cardinality(HandlesOf(c)) <= Cardinality(UserMessagesOf(c))
  /\ \A r \in Slots :
       (req[r].kind = "POST" /\ req[r].resp = "stream")
         => (req[r].saved /\ req[r].registered)

\* the step is one of the GET in slot r: its start, a step of its handler
\* or its return
GetStep(r) ==
  req'[r] # req[r] /\ (req[r].kind = "GET" \/ req'[r].kind = "GET")

\* C30: a step of a GET leaves the conversation, message and stream-handle
\* tables as they are, and leaves the buffers as they are unless it deletes
\* one buffer: that of the last stream id of the list the request read,
\* which the request found, with its whole seconds of age beyond
\* StaleSeconds, after it passed the session and the ownership or visibility
\* check.
C30_GetWritesOnlyStaleBuffer ==
  [][\A r \in Slots :
       GetStep(r) =>
         /\ chats' = chats /\ messages' = messages /\ streams' = streams
         /\ \/ buffers' = buffers
            \/ /\ req[r].streamId # NoId
               /\ req[r].streamId = Last(req[r].streamIds)
               /\ buffers' = [buffers EXCEPT ![req[r].streamId] = NoBuf]
               /\ Authorized(r)
               /\ req[r].found # NoBuf
               /\ Elapsed(r) >= StaleFrom]_vars

C30_Witness ==
  \E r \in Slots :
    /\ IsDone(r) /\ req[r].kind = "GET" /\ req[r].resp = "200empty"
    /\ req[r].user = "u1" /\ req[r].chat.visibility = "public"
    /\ Len(req[r].streamIds) = 2
    /\ req[r].streamId = req[r].streamIds[2]
    /\ buffers[req[r].streamId] = NoBuf
    /\ buffers[req[r].streamIds[1]] # NoBuf

====
